---- MODULE Spec2Model ----
(***************************************************************************)
(* GPPS - General Purpose Permanent Storage (src/gpps.cpp).                *)
(*                                                                         *)
(* One multi_index table "nodes", scoped by the owner account; a row is    *)
(* (id, data).  The actions are set and del; rows are read from outside    *)
(* through the chain's table interface.  An action whose require_auth or   *)
(* check fails aborts the transaction: nothing it did is kept.             *)
(***************************************************************************)
EXTENDS Integers, Sequences, FiniteSets, TLC

\* ---- bounds of the model ------------------------------------------------
\* node ids are 0..MaxId (uint64_t in the code; no arithmetic is done on them)
MaxId == 1
\* rows the accounts' RAM can pay for, over all scopes
MaxNodes == 3

\* the accounts (scopes of the table)
Names == {"alice", "bob"}
Ids == 0..MaxId
\* vector<unsigned char> values the actions are called with
Payloads == { <<>>, <<222>>, <<222, 173>>, <<173, 222>>, <<222, 173, 0>> }
Sentinel == <<222, 173>>

\* outcomes of an action
Ok == "ok"
Unauthorized == "Missing required authority."
ImmutableScope == "Immutable scope."
NotFound == "Node does not exist."

VARIABLES
  table,   \* table[scope] : the rows of scope, a function id -> data
  last,    \* the last call made, with its outcome
  pre      \* the table as it was before the last call

vars == <<table, last, pre>>

\* ---- the table (eosio::multi_index) ---------------------------------------
\* nds.find( id ) != nds.end(), with nds the table in the scope of owner
find(t, owner, id) == id \in DOMAIN t[owner]

\* emplace that sets the id of the new row and leaves its data empty
emplace_noData(t, owner, id, data) ==
  [t EXCEPT ![owner] =
     [j \in (DOMAIN t[owner]) \cup {id} |-> IF j = id THEN <<>> ELSE t[owner][j]]]

\* nds.emplace( owner, n.id = id; n.data = data )
emplace(t, owner, id, data) ==
  [t EXCEPT ![owner] =
     [j \in (DOMAIN t[owner]) \cup {id} |-> IF j = id THEN data ELSE t[owner][j]]]

\* modify that copies data over the start of the old bytes and keeps the rest
modify_merge(t, owner, id, data) ==
  [t EXCEPT ![owner] =
     [t[owner] EXCEPT ![id] = data \o SubSeq(@, Len(data) + 1, Len(@))]]

\* nds.modify( it, same_payer, n.data = data )
modify(t, owner, id, data) ==
  [t EXCEPT ![owner] = [t[owner] EXCEPT ![id] = data]]

\* erase that clears the data of the row and keeps the row
erase_blank(t, owner, id) ==
  [t EXCEPT ![owner] = [t[owner] EXCEPT ![id] = <<>>]]

\* erase that takes id for the first chunk of a file and removes every row
\* from id on
erase_fromId(t, owner, id) ==
  [t EXCEPT ![owner] = [j \in {k \in DOMAIN t[owner] : k < id} |-> t[owner][j]]]

\* nds.erase( it )
erase(t, owner, id) ==
  [t EXCEPT ![owner] = [j \in (DOMAIN t[owner]) \ {id} |-> t[owner][j]]]

\* number of rows of the whole table
NodeCount(t) == LET RECURSIVE sum(_)
                    sum(S) == IF S = {} THEN 0
                              ELSE LET n == CHOOSE x \in S : TRUE
                                   IN Cardinality(DOMAIN t[n]) + sum(S \ {n})
                IN sum(Names)

\* immutable that tests the size of node 0 only
immutable_sizeOnly(t, owner) ==
  IF ~(0 \in DOMAIN t[owner]) THEN FALSE
  ELSE Len(t[owner][0]) = 2

\* immutable that opens the table in one fixed scope instead of owner's
immutable_fixedScope(t, owner) ==
  IF ~(0 \in DOMAIN t["alice"]) THEN FALSE
  ELSE LET data == t["alice"][0]
       IN Len(data) = 2 /\ data[1] = 222 /\ data[2] = 173

\* immutable that tests the first two bytes of node 0 and not its size
immutable_noSize(t, owner) ==
  IF ~(0 \in DOMAIN t[owner]) THEN FALSE
  ELSE LET data == t[owner][0]
       IN Len(data) >= 2 /\ data[1] = 222 /\ data[2] = 173

\* A scope is flagged as immutable when its node 0 is set to 0xDEAD.
immutable(t, owner) ==
  IF ~find(t, owner, 0) THEN FALSE
  ELSE LET data == t[owner][0]
       IN Len(data) = 2 /\ data[1] = 222 /\ data[2] = 173

\* reading a row through the chain's table interface
read(t, owner, id) ==
  IF find(t, owner, id) THEN [result |-> Ok, data |-> t[owner][id]]
  ELSE [result |-> NotFound, data |-> <<>>]

\* the RAM of the payer suffices for the row set would emplace
RamAvailable(t, owner, id) == find(t, owner, id) \/ NodeCount(t) < MaxNodes

Call(op, owner, id, data, auth, result, out, flag) ==
  [op |-> op, owner |-> owner, id |-> id, data |-> data, auth |-> auth,
   result |-> result, out |-> out, flag |-> flag]

\* ---- the actions ----------------------------------------------------------
\* set without the immutability check on the update branch
set_noLatch(owner, id, data, auth) ==
  /\ pre' = table
  /\ IF ~auth
       THEN /\ table' = table
            /\ last' = Call("set", owner, id, data, auth, Unauthorized, <<>>, FALSE)
     ELSE IF ~(id \in DOMAIN table[owner])
       THEN /\ table' = emplace(table, owner, id, data)
            /\ last' = Call("set", owner, id, data, auth, Ok, <<>>, FALSE)
       ELSE /\ table' = modify(table, owner, id, data)
            /\ last' = Call("set", owner, id, data, auth, Ok, <<>>, FALSE)

\* set that reports the failed immutability check after the row was modified
set_checkAfterModify(owner, id, data, auth) ==
  /\ pre' = table
  /\ IF ~auth
       THEN /\ table' = table
            /\ last' = Call("set", owner, id, data, auth, Unauthorized, <<>>, FALSE)
     ELSE IF ~(id \in DOMAIN table[owner])
       THEN /\ table' = emplace(table, owner, id, data)
            /\ last' = Call("set", owner, id, data, auth, Ok, <<>>, FALSE)
       ELSE /\ table' = modify(table, owner, id, data)
            /\ last' = Call("set", owner, id, data, auth,
                            IF immutable(modify(table, owner, id, data), owner)
                            THEN ImmutableScope ELSE Ok, <<>>, FALSE)

\* set without require_auth( owner )
setOutcome_noAuth(t, owner, id, data, auth) ==
  IF ~find(t, owner, id)
    THEN [table |-> emplace(t, owner, id, data), result |-> Ok]
  ELSE IF immutable(t, owner)
    THEN [table |-> t, result |-> ImmutableScope]
    ELSE [table |-> modify(t, owner, id, data), result |-> Ok]

\* set with the immutability check ahead of the create/update branch
setOutcome_latchFirst(t, owner, id, data, auth) ==
  IF ~auth
    THEN [table |-> t, result |-> Unauthorized]
  ELSE IF immutable(t, owner)
    THEN [table |-> t, result |-> ImmutableScope]
  ELSE IF ~find(t, owner, id)
    THEN [table |-> emplace(t, owner, id, data), result |-> Ok]
    ELSE [table |-> modify(t, owner, id, data), result |-> Ok]

\* set that rejects the update that would leave the scope immutable
setOutcome_latchPostState(t, owner, id, data, auth) ==
  IF ~auth
    THEN [table |-> t, result |-> Unauthorized]
  ELSE IF ~find(t, owner, id)
    THEN [table |-> emplace(t, owner, id, data), result |-> Ok]
  ELSE IF immutable(modify(t, owner, id, data), owner)
    THEN [table |-> t, result |-> ImmutableScope]
    ELSE [table |-> modify(t, owner, id, data), result |-> Ok]

\* set that keeps one immutability flag for the whole table
setOutcome_globalLatch(t, owner, id, data, auth) ==
  IF ~auth
    THEN [table |-> t, result |-> Unauthorized]
  ELSE IF ~find(t, owner, id)
    THEN [table |-> emplace(t, owner, id, data), result |-> Ok]
  ELSE IF \E n \in Names : immutable(t, n)
    THEN [table |-> t, result |-> ImmutableScope]
    ELSE [table |-> modify(t, owner, id, data), result |-> Ok]

\* void set( name owner, uint64_t id, vector<unsigned char> data );
\* auth: the transaction carries the authorization of owner.
\* The table and the outcome the call leaves, from table t.
setOutcome(t, owner, id, data, auth) ==
  IF ~auth
    THEN [table |-> t, result |-> Unauthorized]
  ELSE IF ~find(t, owner, id)
    THEN [table |-> emplace(t, owner, id, data), result |-> Ok]
  ELSE IF immutable(t, owner)
    THEN [table |-> t, result |-> ImmutableScope]
    ELSE [table |-> modify(t, owner, id, data), result |-> Ok]

set(owner, id, data, auth) ==
  /\ pre' = table
  /\ table' = setOutcome(table, owner, id, data, auth).table
  /\ last' = Call("set", owner, id, data, auth,
                  setOutcome(table, owner, id, data, auth).result, <<>>, FALSE)

\* del without the immutability check
del_noLatch(owner, id, auth) ==
  /\ pre' = table
  /\ IF ~auth
       THEN /\ table' = table
            /\ last' = Call("del", owner, id, <<>>, auth, Unauthorized, <<>>, FALSE)
     ELSE IF ~(id \in DOMAIN table[owner])
       THEN /\ table' = table
            /\ last' = Call("del", owner, id, <<>>, auth, NotFound, <<>>, FALSE)
       ELSE /\ table' = erase(table, owner, id)
            /\ last' = Call("del", owner, id, <<>>, auth, Ok, <<>>, FALSE)

\* del that checks immutability before it checks that the node exists
del_latchFirst(owner, id, auth) ==
  /\ pre' = table
  /\ IF ~auth
       THEN /\ table' = table
            /\ last' = Call("del", owner, id, <<>>, auth, Unauthorized, <<>>, FALSE)
     ELSE IF 0 \in DOMAIN table[owner] /\ table[owner][0] = <<222, 173>>
       THEN /\ table' = table
            /\ last' = Call("del", owner, id, <<>>, auth, ImmutableScope, <<>>, FALSE)
     ELSE IF ~(id \in DOMAIN table[owner])
       THEN /\ table' = table
            /\ last' = Call("del", owner, id, <<>>, auth, NotFound, <<>>, FALSE)
       ELSE /\ table' = erase(table, owner, id)
            /\ last' = Call("del", owner, id, <<>>, auth, Ok, <<>>, FALSE)

\* void del( name owner, uint64_t id );
\* The table and the outcome the call leaves, from table t.
delOutcome(t, owner, id, auth) ==
  IF ~auth
    THEN [table |-> t, result |-> Unauthorized]
  ELSE IF ~find(t, owner, id)
    THEN [table |-> t, result |-> NotFound]
  ELSE IF immutable(t, owner)
    THEN [table |-> t, result |-> ImmutableScope]
    ELSE [table |-> erase(t, owner, id), result |-> Ok]

del(owner, id, auth) ==
  /\ pre' = table
  /\ table' = delOutcome(table, owner, id, auth).table
  /\ last' = Call("del", owner, id, <<>>, auth,
                  delOutcome(table, owner, id, auth).result, <<>>, FALSE)

\* get that creates the row it does not find
get_creating(owner, id) ==
  /\ pre' = table
  /\ table' = IF id \in DOMAIN table[owner] THEN table
              ELSE emplace(table, owner, id, <<>>)
  /\ last' = Call("get", owner, id, <<>>, FALSE,
                  read(table, owner, id).result, read(table, owner, id).data, FALSE)

\* a reader fetches row id of scope owner; no authorization is involved
get(owner, id) ==
  /\ pre' = table
  /\ table' = table
  /\ last' = Call("get", owner, id, <<>>, FALSE,
                  read(table, owner, id).result, read(table, owner, id).data, FALSE)

\* a reader evaluates the immutability of scope owner
isImmutable(owner) ==
  /\ pre' = table
  /\ table' = table
  /\ last' = Call("isImmutable", owner, 0, <<>>, FALSE, Ok, <<>>, immutable(table, owner))

Init ==
  /\ table = [n \in Names |-> <<>>]
  /\ pre = [n \in Names |-> <<>>]
  /\ last = Call("none", "alice", 0, <<>>, FALSE, Ok, <<>>, FALSE)

Next ==
  \/ \E owner \in Names, id \in Ids, data \in Payloads, auth \in BOOLEAN :
       RamAvailable(table, owner, id) /\ set(owner, id, data, auth)
  \/ \E owner \in Names, id \in Ids, auth \in BOOLEAN : del(owner, id, auth)
  \/ \E owner \in Names, id \in Ids : get(owner, id)
  \/ \E owner \in Names : isImmutable(owner)

Spec == Init /\ [][Next]_vars

TypeOK ==
  /\ \A n \in Names : DOMAIN table[n] \subseteq Ids
                      /\ \A i \in DOMAIN table[n] : table[n][i] \in Payloads
  /\ NodeCount(table) <= MaxNodes

\* ---- claims ---------------------------------------------------------------
Owned == last.op \in {"set", "del"} /\ last.auth

\* C1: from a state in which node 0 of n holds {0xDE, 0xAD}, every write and
\* every delete by the owner, for any id (also ids not in n) and any payload,
\* fails with ImmutableScope and changes nothing.
C1_ImmutabilityLatch ==
  (Owned /\ immutable(pre, last.owner))
    => (last.result = ImmutableScope /\ table = pre)

\* C2: once isImmutable(n) is true it is true in every later state, whatever
\* call follows.
C2_Irreversible ==
  [][\A n \in Names : immutable(table, n) => immutable(table', n)]_vars

\* the owner has written node 0 of a scope that was immutable, and it still is
C2_Witness ==
  /\ last.op = "set" /\ last.auth /\ last.id = 0 /\ last.data # Sentinel
  /\ immutable(pre, last.owner)
  /\ immutable(table, last.owner)

\* C3: a node that exists while its scope is immutable exists with the same
\* payload in every later state.
C3_NodesFinal ==
  [][\A n \in Names : \A i \in Ids :
       (immutable(table, n) /\ find(table, n, i))
         => (find(table', n, i) /\ table'[n][i] = table[n][i])]_vars

\* the owner has called del on an existing node other than 0 of an immutable
\* scope, and the node is still there
C3_Witness ==
  /\ last.op = "del" /\ last.auth /\ last.id # 0
  /\ immutable(pre, last.owner) /\ find(pre, last.owner, last.id)
  /\ find(table, last.owner, last.id)
  /\ table[last.owner][last.id] = pre[last.owner][last.id]

\* C4: isImmutable(n) is true if and only if node 0 exists in n and its payload
\* is exactly the two bytes 0xDE, 0xAD; the query answers from the current
\* content of node 0.
C4_SentinelSpecificity ==
  /\ \A n \in Names :
       immutable(table, n) <=> (0 \in DOMAIN table[n] /\ table[n][0] = Sentinel)
  /\ last.op = "isImmutable"
       => (last.flag <=> (0 \in DOMAIN table[last.owner]
                          /\ table[last.owner][0] = Sentinel))

\* the query has answered false for a scope whose node 0 holds two bytes that
\* are not the sentinel
C4_Witness ==
  /\ last.op = "isImmutable" /\ ~last.flag
  /\ find(table, last.owner, 0)
  /\ table[last.owner][0] = <<173, 222>>

\* C5: where n is not immutable, write(n, i, p) by the owner succeeds for every
\* id and payload, whether or not (n, i) exists, and read(n, i) then returns p.
C5_CreateThenRead ==
  (last.op = "set" /\ last.auth /\ ~immutable(pre, last.owner))
    => /\ last.result = Ok
       /\ read(table, last.owner, last.id) = [result |-> Ok, data |-> last.data]

\* the owner has created a node with the empty payload
C5_Witness ==
  /\ last.op = "set" /\ last.auth /\ last.data = <<>>
  /\ ~find(pre, last.owner, last.id)
  /\ read(table, last.owner, last.id) = [result |-> Ok, data |-> <<>>]

\* C6: in a non-immutable scope a write to an existing node replaces its
\* payload by the new one, whatever the two lengths, and leaves the number of
\* nodes of the scope unchanged.
C6_OverwriteReplaces ==
  (last.op = "set" /\ last.auth /\ find(pre, last.owner, last.id)
     /\ ~immutable(pre, last.owner))
    => /\ last.result = Ok
       /\ read(table, last.owner, last.id) = [result |-> Ok, data |-> last.data]
       /\ DOMAIN table[last.owner] = DOMAIN pre[last.owner]

\* a three-byte payload has been overwritten by a one-byte payload
C6_Witness ==
  /\ last.op = "set" /\ last.auth /\ last.result = Ok
  /\ find(pre, last.owner, last.id)
  /\ Len(pre[last.owner][last.id]) = 3
  /\ Len(last.data) = 1
  /\ table[last.owner][last.id] = last.data

\* C7: in a non-immutable scope delete by the owner of an existing node
\* succeeds and read then returns NotFound; if it was the last node the scope
\* is as if it had never been written.
C7_DeleteRemoves ==
  (last.op = "del" /\ last.auth /\ find(pre, last.owner, last.id)
     /\ ~immutable(pre, last.owner))
    => /\ last.result = Ok
       /\ read(table, last.owner, last.id).result = NotFound
       /\ DOMAIN pre[last.owner] = {last.id}
            => /\ table[last.owner] = <<>>
               /\ \A i \in Ids : read(table, last.owner, i).result = NotFound
               /\ ~immutable(table, last.owner)

\* the owner has deleted the only node of a scope
C7_Witness ==
  /\ last.op = "del" /\ last.auth /\ last.result = Ok
  /\ DOMAIN pre[last.owner] = {last.id}
  /\ DOMAIN table[last.owner] = {}

\* C8: delete of a node that does not exist fails with NotFound and leaves the
\* store unchanged, also when the scope is immutable.
C8_DeleteNonExistent ==
  (last.op = "del" /\ last.auth /\ ~find(pre, last.owner, last.id))
    => (last.result = NotFound /\ table = pre)

\* the owner has called del on a missing node of an immutable scope
C8_Witness ==
  /\ last.op = "del" /\ last.auth
  /\ ~find(pre, last.owner, last.id)
  /\ immutable(pre, last.owner)
  /\ last.result = NotFound

\* C9: no write or delete on n1 changes the nodes, the payloads or the
\* immutability of another scope n2.
C9_NamespaceIsolation ==
  last.op \in {"set", "del"}
    => \A n2 \in Names \ {last.owner} :
         /\ table[n2] = pre[n2]
         /\ immutable(table, n2) <=> immutable(pre, n2)

\* a scope has been made immutable while another scope holds a node 0 that is
\* not the sentinel
C9_Witness ==
  /\ last.op = "set" /\ last.auth /\ last.id = 0 /\ last.data = Sentinel
  /\ last.result = Ok
  /\ \E n2 \in Names \ {last.owner} :
       find(table, n2, 0) /\ ~immutable(table, n2)

\* C10: a write or delete that fails leaves the whole store as it was.
C10_UnchangedOnError ==
  (last.op \in {"set", "del"} /\ last.result # Ok) => table = pre

\* a delete has been rejected with ImmutableScope and the node still reads as
\* before
C10_Witness ==
  /\ last.op = "del" /\ last.result = ImmutableScope
  /\ read(table, last.owner, last.id)
       = [result |-> Ok, data |-> pre[last.owner][last.id]]

\* C11: a set or del on n that is not authorized as n is rejected with nothing
\* changed; the nodes of n and the immutability of n change only by a call
\* authorized as n.
C11_OwnerOnly ==
  /\ (last.op \in {"set", "del"} /\ ~last.auth)
       => (last.result = Unauthorized /\ table = pre)
  /\ \A n \in Names :
       (table[n] # pre[n] \/ (immutable(table, n) # immutable(pre, n)))
         => (last.op \in {"set", "del"} /\ last.owner = n /\ last.auth)

\* a set of the sentinel on node 0 without the owner's authorization has been
\* rejected and the scope is not immutable
C11_Witness ==
  /\ last.op = "set" /\ ~last.auth /\ last.id = 0 /\ last.data = Sentinel
  /\ last.result = Unauthorized
  /\ ~immutable(table, last.owner)
  /\ DOMAIN table[last.owner] # {}

\* C12: as the comment on set states, once node 0 of a scope has been set with
\* empty data a set on an existing node of the scope fails with "Immutable
\* scope.".
C12_EmptyNodeZeroLocks ==
  (last.op = "set" /\ last.auth
     /\ find(pre, last.owner, 0) /\ pre[last.owner][0] = <<>>
     /\ find(pre, last.owner, last.id))
    => last.result = ImmutableScope

\* C13: set on an id that does not exist creates the node and succeeds, also
\* in an immutable scope; in an immutable scope a set succeeds only on an id
\* that did not exist, no node changes and none is removed.
C13_CreateNotGuarded ==
  /\ (last.op = "set" /\ last.auth /\ ~find(pre, last.owner, last.id))
       => /\ last.result = Ok
          /\ find(table, last.owner, last.id)
          /\ table[last.owner][last.id] = last.data
  /\ (last.op = "set" /\ last.result = Ok /\ immutable(pre, last.owner))
       => ~find(pre, last.owner, last.id)
  /\ \A n \in Names :
       immutable(pre, n)
         => /\ Cardinality(DOMAIN table[n]) >= Cardinality(DOMAIN pre[n])
            /\ \A i \in DOMAIN pre[n] :
                 find(table, n, i) /\ table[n][i] = pre[n][i]

\* the owner has created a node in a scope that was already immutable
C13_Witness ==
  /\ last.op = "set" /\ last.auth /\ last.result = Ok
  /\ immutable(pre, last.owner)
  /\ ~find(pre, last.owner, last.id)
  /\ find(table, last.owner, last.id)
  /\ Cardinality(DOMAIN table[last.owner]) = Cardinality(DOMAIN pre[last.owner]) + 1

\* C14: a successful write or delete of (n, i) changes only the entry (n, i):
\* every other node keeps its existence and its payload.
C14_SingleNodeEffect ==
  (last.op \in {"set", "del"} /\ last.result = Ok)
    => \A n \in Names : \A j \in Ids :
         (n # last.owner \/ j # last.id)
           => /\ find(table, n, j) <=> find(pre, n, j)
              /\ find(pre, n, j) => table[n][j] = pre[n][j]

\* node 0 has been deleted from a scope whose node 1 is still there
C14_Witness ==
  /\ last.op = "del" /\ last.result = Ok /\ last.id = 0
  /\ find(pre, last.owner, 1)
  /\ find(table, last.owner, 1)
  /\ table[last.owner][1] = pre[last.owner][1]

\* C15: a write or delete fails with ImmutableScope only if the scope was
\* immutable before the call; the write of the sentinel to node 0 of a scope
\* that is not immutable succeeds, and while the scope is not immutable node 0
\* is written, overwritten and deleted like any node.
C15_LatchOnPreState ==
  /\ last.result = ImmutableScope
       => (last.op \in {"set", "del"} /\ immutable(pre, last.owner))
  /\ (last.op = "set" /\ last.auth /\ last.id = 0 /\ last.data = Sentinel
        /\ ~immutable(pre, last.owner))
       => (last.result = Ok /\ immutable(table, last.owner))
  /\ (Owned /\ last.id = 0 /\ ~immutable(pre, last.owner))
       => IF last.op = "set"
            THEN last.result = Ok /\ table[last.owner][0] = last.data
          ELSE IF find(pre, last.owner, 0)
            THEN last.result = Ok /\ ~find(table, last.owner, 0)
            ELSE last.result = NotFound

\* the sentinel has been written over another payload of node 0
C15_Witness ==
  /\ last.op = "set" /\ last.auth /\ last.id = 0 /\ last.data = Sentinel
  /\ find(pre, last.owner, 0) /\ pre[last.owner][0] # Sentinel
  /\ last.result = Ok
  /\ immutable(table, last.owner)

\* C16: isImmutable(n) goes from false to true only by a successful write of
\* exactly {0xDE, 0xAD} to node 0 of n, authorized as n.
C16_SingleWayIn ==
  \A n \in Names :
    (~immutable(pre, n) /\ immutable(table, n))
      => /\ last.op = "set" /\ last.owner = n /\ last.auth
         /\ last.id = 0 /\ last.data = Sentinel
         /\ last.result = Ok

\* a scope with a node other than 0 has just become immutable
C16_Witness ==
  \E n \in Names :
    /\ ~immutable(pre, n) /\ immutable(table, n)
    /\ \E i \in DOMAIN pre[n] : i # 0
    /\ last.op = "set" /\ last.owner = n

\* C17: read and isImmutable never change the store and need no authorization;
\* read returns the stored payload if the node exists and NotFound otherwise,
\* also in an immutable scope and for node 0.
C17_QueriesPure ==
  /\ last.op \in {"get", "isImmutable"} => (table = pre /\ ~last.auth)
  /\ last.op = "get"
       => IF last.id \in DOMAIN pre[last.owner]
            THEN last.result = Ok /\ last.out = pre[last.owner][last.id]
            ELSE last.result = NotFound
  /\ last.op = "isImmutable"
       => (last.result = Ok /\ (last.flag <=> immutable(pre, last.owner)))

\* a read of a missing node of an immutable scope has returned NotFound and
\* the node is still missing
C17_Witness ==
  /\ last.op = "get" /\ last.result = NotFound
  /\ immutable(table, last.owner)
  /\ ~find(table, last.owner, last.id)

\* the writes and deletes a transaction can carry
Mutations ==
  { [op |-> "set", owner |-> n, id |-> i, data |-> d, auth |-> a] :
      n \in Names, i \in Ids, d \in Payloads, a \in BOOLEAN }
  \cup
  { [op |-> "del", owner |-> n, id |-> i, data |-> <<>>, auth |-> a] :
      n \in Names, i \in Ids, a \in BOOLEAN }

\* the table and the outcome call c leaves, from table t
Apply(t, c) ==
  IF c.op = "set" THEN setOutcome(t, c.owner, c.id, c.data, c.auth)
  ELSE delOutcome(t, c.owner, c.id, c.auth)

\* C18: two write/delete invocations on different scopes give each invocation
\* the same outcome and lead to the same table in both orders.  c1 is the call
\* just made from pre; c2 is any call on another scope.
C18_CommuteAcrossNamespaces ==
  last.op \in {"set", "del"}
    => \A c2 \in Mutations :
         c2.owner # last.owner
           => LET first2 == Apply(pre, c2)
                  then1  == Apply(first2.table, last)
                  then2  == Apply(table, c2)
              IN /\ then1.result = last.result
                 /\ then2.result = first2.result
                 /\ then1.table = then2.table

\* a scope has been made immutable while the other scope holds a node 1, which
\* its owner may write before or after
C18_Witness ==
  /\ last.op = "set" /\ last.auth /\ last.id = 0 /\ last.data = Sentinel
  /\ last.result = Ok
  /\ \E n2 \in Names \ {last.owner} :
       /\ find(table, n2, 1)
       /\ Apply(table, [op |-> "set", owner |-> n2, id |-> 1,
                        data |-> <<222>>, auth |-> TRUE]).result = Ok
====
